---- MODULE Spec2Model ----
(***************************************************************************)
(* rusty-wallpaper: the scheduler loop of main(), the wallpaper cache      *)
(* SimpleWallpaper::download_wallpaper, the directory resolution and the   *)
(* SIMPLE_DESKTOP_TIMEOUT override, as a state machine over the process    *)
(* locals, the file system below the download directories and the calls    *)
(* made to the catalog, the image host and the platform.                   *)
(***************************************************************************)
EXTENDS Integers, Sequences, FiniteSets, TLC

(***************************************************************************)
(* Bounds of the model.  Time is counted in whole seconds and passes in    *)
(* thread::sleep only, check_time seconds at a time; the loop is followed  *)
(* until MaxElapsed seconds have passed since the last change.             *)
(***************************************************************************)
MaxElapsed == 3720

(***************************************************************************)
(* u64 arithmetic.  A u64 is kept as NLimbs limbs of LimbBits bits, least  *)
(* significant first, so that 60 * m overflows where the program's does.   *)
(***************************************************************************)
LimbBits == 16
NLimbs == 64 \div LimbBits
Base == 2 ^ LimbBits

U64(n) == [i \in 1..NLimbs |-> IF i = 1 THEN n % Base
                               ELSE IF i = 2 THEN n \div Base ELSE 0]

RECURSIVE MulCarry(_, _, _)
MulCarry(x, k, i) ==
    IF i = 0 THEN 0 ELSE (x[i] * k + MulCarry(x, k, i - 1)) \div Base

\* x * k modulo 2^64 (u64::wrapping_mul, the release build's `*`)
wrapping_mul(x, k) ==
    [i \in 1..NLimbs |-> (x[i] * k + MulCarry(x, k, i - 1)) % Base]

\* whether x * k leaves the u64 range (u64::checked_mul is None)
mul_overflows(x, k) == MulCarry(x, k, NLimbs) > 0

RECURSIVE AddCarry(_, _, _)
AddCarry(x, d, i) ==
    IF i = 0 THEN d ELSE (x[i] + AddCarry(x, d, i - 1)) \div Base

wrapping_add(x, d) ==
    [i \in 1..NLimbs |-> (x[i] + AddCarry(x, d, i - 1)) % Base]

add_overflows(x, d) == AddCarry(x, d, NLimbs) > 0

\* the comparison with >= in place of >
DurationGe(e, d) ==
    /\ \A i \in 3..NLimbs : d[i] = 0
    /\ d[2] < e \div Base \/ (d[2] = e \div Base /\ d[1] <= e % Base)

\* Duration comparison `elapsed > d` for an elapsed time of e whole seconds
DurationGt(e, d) ==
    /\ \A i \in 3..NLimbs : d[i] = 0
    /\ d[2] < e \div Base \/ (d[2] = e \div Base /\ d[1] < e % Base)

(***************************************************************************)
(* str::parse::<u64>: an optional leading '+', then decimal digits         *)
(* accumulated with checked_mul(10) and checked_add(digit).                *)
(***************************************************************************)
Digits == <<"0", "1", "2", "3", "4", "5", "6", "7", "8", "9">>

IsDigit(c) == \E i \in 1..10 : Digits[i] = c

DigitValue(c) == (CHOOSE i \in 1..10 : Digits[i] = c) - 1

ParseErr == [ok |-> FALSE, val |-> U64(0)]

RECURSIVE ParseDigits(_, _)
ParseDigits(s, acc) ==
    IF Len(s) = 0 THEN [ok |-> TRUE, val |-> acc]
    ELSE IF ~IsDigit(Head(s)) THEN ParseErr
    ELSE IF mul_overflows(acc, 10) THEN ParseErr
    ELSE IF add_overflows(wrapping_mul(acc, 10), DigitValue(Head(s))) THEN ParseErr
    ELSE ParseDigits(Tail(s), wrapping_add(wrapping_mul(acc, 10), DigitValue(Head(s))))

parse_u64(s) ==
    IF Len(s) = 0 THEN ParseErr
    ELSE IF Head(s) = "+" \/ Head(s) = "-"
         THEN IF Len(s) = 1 \/ Head(s) = "-" THEN ParseErr
              ELSE ParseDigits(Tail(s), U64(0))
         ELSE ParseDigits(s, U64(0))

(***************************************************************************)
(* The world outside the process: what the environment block, the catalog, *)
(* the image host, the platform and the file system can answer.            *)
(***************************************************************************)
Absent == [kind |-> "NotPresent", s |-> ""]
NotUnicode == [kind |-> "NotUnicode", s |-> ""]
Present(s) == [kind |-> "Ok", s |-> s]

DirectoryEnv == {Absent, NotUnicode, Present("D:/w")}
TimeoutStrings == {"5", "abc", "307445734561825861"}
TimeoutEnv == {Absent, NotUnicode} \cup {Present(s) : s \in TimeoutStrings}

\* timeout.parse::<u64>() of each value the variable takes here
Parsed == [s \in TimeoutStrings |-> parse_u64(s)]
PicturesDirectory == "C:/Users/u/Pictures"

TotalCounts == {0, 1, 2}
Entries == {[title |-> "Sunset", url |-> "http://x/sunset.png"],
            [title |-> "Dawn", url |-> "http://x/dawn.png"]}
Bodies == {<<1, 2>>, <<1, 3>>}

ListErr(e) == [ok |-> FALSE, err |-> e, total_count |-> 0, objects |-> <<>>]
ListOk(n, objs) == [ok |-> TRUE, err |-> "none", total_count |-> n, objects |-> objs]

\* what get_wallpaper_list can return: the catalog is not under the program's control
ListResults ==
    {ListErr("RequestError"), ListErr("DeserializationError")}
    \cup {ListOk(n, objs) : n \in TotalCounts,
                            objs \in {<<>>} \cup {<<e>> : e \in Entries}}

GetResults == {[ok |-> FALSE, body |-> <<>>]} \cup {[ok |-> TRUE, body |-> b] : b \in Bodies}

\* outcomes of the calls download_wallpaper makes: the catalog page, create_dir_all,
\* File::create, the image GET, and how many bytes write_all got to disk
DownloadInputs ==
    [list : ListResults, mkdir : BOOLEAN, create : BOOLEAN, get : GetResults, written : 0..2]

NoCall == [called |-> FALSE, args |-> << >>, path |-> "", gets |-> 0, hit |-> FALSE,
           again |-> FALSE]

VARIABLES
    pc,                 \* where main() is
    err,                \* the Err (or panic) the last step returned, "none" if it returned Ok
    env_directory,      \* SIMPLE_DESKTOP_DIRECTORY in the process environment
    download_directory, \* main's download_directory
    total_count,        \* SimpleWallpaper.total_count
    sleep_time,         \* main's sleep_time, seconds as u64
    elapsed,            \* staring.elapsed(), whole seconds
    number,             \* the offset handed to download_wallpaper
    wallpaper_name,     \* main's wallpaper_name
    timeout,            \* the result of env::var("SIMPLE_DESKTOP_TIMEOUT") in this iteration
    dirs,               \* directories on disk
    files,              \* files on disk: path -> bytes
    calls,              \* catalog, image and platform calls made in this iteration
    prev                \* history: the last download_wallpaper call that returned a path

vars == <<pc, err, env_directory, download_directory, total_count, sleep_time,
          elapsed, number, wallpaper_name, timeout, dirs, files, calls, prev>>

check_time == 60
DefaultSleepTime == U64(60 * 60)
directory == "SimpleDesktop"

ListCall(n, r) == [op |-> "list", offset |-> n, ok |-> r.ok,
                   total_count |-> r.total_count, objects |-> r.objects]
GetCall(url, r) == [op |-> "get", url |-> url, ok |-> r.ok, body |-> r.body]
SetCall(path, ok) == [op |-> "set", path |-> path, ok |-> ok]

\* an error that is dropped instead of returned
try_ignored(ok, next) == next

\* the `?` operator: Ok goes on to the next statement, Err returns from main
try(ok, next) == IF ok THEN next ELSE "terminated"

\* env::var(..).unwrap_or_else(|_| default)
unwrap_or_else(env, default) == IF env.kind = "Ok" THEN env.s ELSE default

\* the range with its upper end included
gen_range_inclusive(low, high) == low..high

\* rng.gen_range(low, high): the half-open range (empty when low >= high: it panics)
gen_range(low, high) == {n \in low..high : n < high}

\* a cache that never finds its file
path_exists_never(fs, p) == FALSE

\* std::path::Path::new(p).exists()
path_exists(fs, p) == p \in DOMAIN fs

\* the file name without its extension
wallpaper_filename_bare(sd_directory, title) == sd_directory \o title

\* line 141
wallpaper_filename(sd_directory, title) == sd_directory \o title \o ".png"

\* a loop that re-reads the override only after a change
after_check_skipping(expired) == IF expired THEN "download" ELSE "sleep"

\* where the loop goes after the elapsed-time test of line 219
after_check(expired) == IF expired THEN "download" ELSE "read_timeout"

Put(fs, p, bytes) == [q \in DOMAIN fs \cup {p} |-> IF q = p THEN bytes ELSE fs[q]]

Failed(e, d, f, c) == [ok |-> FALSE, err |-> e, path |-> "", dirs |-> d, files |-> f, calls |-> c]
Returned(p, d, f, c) == [ok |-> TRUE, err |-> "none", path |-> p, dirs |-> d, files |-> f, calls |-> c]

\* SimpleWallpaper::download_wallpaper(number, dir) on the disk (d, f), given what
\* the calls it makes answer
download_wallpaper(n, dir, d, f, in) ==
    LET sd_directory == dir \o "/" \o directory \o "/"
        c1 == <<ListCall(n, in.list)>>
        d1 == d \cup {sd_directory}
    IN  IF ~in.list.ok THEN Failed(in.list.err, d, f, c1)
        ELSE IF ~in.mkdir THEN Failed("IoError", d, f, c1)
        ELSE IF Len(in.list.objects) < 1 THEN Failed("ApiError", d1, f, c1)
        ELSE LET name == wallpaper_filename(sd_directory, in.list.objects[1].title)
                 c2 == Append(c1, GetCall(in.list.objects[1].url, in.get))
                 bytes == in.get.body
             IN  IF path_exists(f, name) THEN Returned(name, d1, f, c1)
                 ELSE IF ~in.create THEN Failed("IoError", d1, f, c1)
                 ELSE IF ~in.get.ok THEN Failed("RequestError", d1, Put(f, name, <<>>), c2)
                 ELSE IF in.written < Len(bytes)
                      THEN Failed("IoError", d1, Put(f, name, SubSeq(bytes, 1, in.written)), c2)
                 ELSE Returned(name, d1, Put(f, name, bytes), c2)

Init ==
    /\ pc = "start"
    /\ err = "none"
    /\ env_directory \in DirectoryEnv
    /\ download_directory = ""
    /\ total_count = 0
    /\ sleep_time = DefaultSleepTime
    /\ elapsed = 0
    /\ number = 0
    /\ wallpaper_name = ""
    /\ timeout = Absent
    /\ dirs = {}
    /\ files = << >>
    /\ calls = << >>
    /\ prev = NoCall

\* lines 209-211: the pictures directory is looked up first, then the override is read
ResolveDirectory ==
    /\ pc = "start"
    /\ \E found \in BOOLEAN :
        /\ pc' = try(found, "new")
        /\ err' = IF found THEN "none" ELSE "WindowsOSError"
        /\ download_directory' =
               IF found THEN unwrap_or_else(env_directory, PicturesDirectory)
               ELSE download_directory
    /\ UNCHANGED <<env_directory, total_count, sleep_time, elapsed, number,
                   wallpaper_name, timeout, dirs, files, calls, prev>>

\* lines 213-216: SimpleWallpaper::new fetches page 0 once; staring = Instant::now()
New ==
    /\ pc = "new"
    /\ \E r \in ListResults :
        /\ pc' = try(r.ok, "check")
        /\ err' = r.err
        /\ total_count' = IF r.ok THEN r.total_count ELSE total_count
        /\ calls' = <<ListCall(0, r)>>
    /\ elapsed' = 0
    /\ UNCHANGED <<env_directory, download_directory, sleep_time, number,
                   wallpaper_name, timeout, dirs, files, prev>>

\* lines 219-222: the elapsed-time test and, when it passes, the random offset
Check ==
    /\ pc = "check"
    /\ calls' = << >>
    /\ LET expired == DurationGt(elapsed, sleep_time)
           range == gen_range(0, total_count)
       IN  IF expired /\ range = {}
           THEN /\ pc' = "terminated"
                /\ err' = "panic"
                /\ number' = number
           ELSE /\ pc' = after_check(expired)
                /\ err' = "none"
                /\ IF expired THEN number' \in range ELSE number' = number
    /\ UNCHANGED <<env_directory, download_directory, total_count, sleep_time,
                   elapsed, wallpaper_name, timeout, dirs, files, prev>>

\* lines 220-225 and 131-153
DownloadWallpaper ==
    /\ pc = "download"
    /\ \E r \in {download_wallpaper(number, download_directory, dirs, files, in) :
                    in \in DownloadInputs} :
            /\ pc' = try(r.ok, "set_wallpaper")
            /\ err' = r.err
            /\ wallpaper_name' = IF r.ok THEN r.path ELSE wallpaper_name
            /\ dirs' = r.dirs
            /\ files' = r.files
            /\ calls' = calls \o r.calls
            /\ prev' = IF r.ok
                       THEN LET this == [number |-> number, entry |-> r.calls[1].objects[1]]
                            IN  [called |-> TRUE, args |-> this, path |-> r.path,
                                 gets |-> Len(r.calls) - 1,
                                 hit |-> r.path \in DOMAIN files,
                                 again |-> prev.called /\ prev.args = this]
                       ELSE prev
    /\ UNCHANGED <<env_directory, download_directory, total_count, sleep_time,
                   elapsed, number, timeout>>

\* lines 226-227 and 178-202
SetWallpaper ==
    /\ pc = "set_wallpaper"
    /\ \E successful \in BOOLEAN :
        /\ pc' = try(successful, "read_timeout")
        /\ err' = IF successful THEN "none" ELSE "WindowsOSError"
        /\ calls' = Append(calls, SetCall(wallpaper_name, successful))
        /\ elapsed' = IF successful THEN 0 ELSE elapsed
    /\ UNCHANGED <<env_directory, download_directory, total_count, sleep_time,
                   number, wallpaper_name, timeout, dirs, files, prev>>

\* lines 230-234; a debug build panics where 60 * m overflows, a release build wraps
ReadTimeout ==
    /\ pc = "read_timeout"
    /\ \E v \in TimeoutEnv, overflow_checks \in BOOLEAN :
        /\ timeout' = v
        /\ IF v.kind # "Ok"
           THEN /\ pc' = "sleep" /\ err' = "none" /\ sleep_time' = sleep_time
           ELSE LET parsed == Parsed[v.s]
                IN  IF ~parsed.ok
                    THEN /\ pc' = try(FALSE, "sleep")
                         /\ err' = "WrongEnvironmentVariable"
                         /\ sleep_time' = sleep_time
                    ELSE IF mul_overflows(parsed.val, 60) /\ overflow_checks
                    THEN /\ pc' = "terminated" /\ err' = "panic" /\ sleep_time' = sleep_time
                    ELSE /\ pc' = "sleep"
                         /\ err' = "none"
                         /\ sleep_time' = wrapping_mul(parsed.val, 60)
    /\ UNCHANGED <<env_directory, download_directory, total_count, elapsed, number,
                   wallpaper_name, dirs, files, calls, prev>>

\* line 235
Sleep ==
    /\ pc = "sleep"
    /\ elapsed + check_time <= MaxElapsed
    /\ pc' = "check"
    /\ elapsed' = elapsed + check_time
    /\ timeout' = Absent
    /\ UNCHANGED <<err, env_directory, download_directory, total_count, sleep_time,
                   number, wallpaper_name, dirs, files, calls, prev>>

Next ==
    \/ ResolveDirectory
    \/ New
    \/ Check
    \/ DownloadWallpaper
    \/ SetWallpaper
    \/ ReadTimeout
    \/ Sleep

Spec == Init /\ [][Next]_vars

(***************************************************************************)
(* Properties                                                              *)
(***************************************************************************)
IsGet(c) == c.op = "get"
IsSet(c) == c.op = "set"
Count(log, P(_)) == Cardinality({i \in 1..Len(log) : P(log[i])})

\* e <= d for an elapsed time of e seconds and a u64 number of seconds d
WithinInterval(e, d) ==
    \/ \E i \in 3..NLimbs : d[i] > 0
    \/ d[2] > e \div Base
    \/ d[2] = e \div Base /\ d[1] >= e % Base

\* the cache path the specification gives for a title
CachePath(title) == download_directory \o "/SimpleDesktop/" \o title \o ".png"

InLoop == pc \in {"check", "download", "set_wallpaper", "read_timeout", "sleep"}

\* C1: in an iteration whose test finds now - last_change <= change_interval the loop
\* goes straight to the re-read of the override: no catalog fetch, no image download,
\* no set-desktop-background call, no change on disk, and last_change is not reset
\* (the elapsed time only grows by the sleep that ends the iteration).
C1_ElapsedTimeGating ==
    [][/\ (pc = "check" /\ WithinInterval(elapsed, sleep_time))
           => /\ pc' = "read_timeout"
              /\ calls' = << >>
              /\ elapsed' = elapsed
              /\ files' = files /\ dirs' = dirs
       /\ (pc = "read_timeout")
           => calls' = calls /\ elapsed' = elapsed /\ files' = files /\ dirs' = dirs
       /\ (pc = "sleep")
           => /\ calls' = calls /\ files' = files /\ dirs' = dirs
              /\ elapsed' = elapsed + check_time]_vars

\* an iteration that ended without a change exactly at the boundary now - last_change =
\* change_interval, under the default interval
C1_Witness ==
    /\ pc = "sleep"
    /\ calls = << >>
    /\ elapsed = 3600
    /\ sleep_time = DefaultSleepTime

\* C2: the offset handed to download_wallpaper, which is the offset of the catalog fetch
\* it makes, lies in [0, total_count); total_count is the value the fetch of page 0
\* returned at construction and no later step changes it, whatever total_count the
\* pages fetched later report.
C2_OffsetBound ==
    [][/\ (pc' = "download") => (0 <= number' /\ number' < total_count')
       /\ (pc = "download")
           => /\ calls'[1].op = "list"
              /\ calls'[1].offset = number
              /\ 0 <= number /\ number < total_count
       /\ (pc = "new" /\ pc' = "check")
           => /\ Len(calls') = 1
              /\ calls'[1].offset = 0
              /\ total_count' = calls'[1].total_count
       /\ InLoop => total_count' = total_count]_vars

\* a change made with the largest offset while the catalog reports another total_count
C2_Witness ==
    /\ pc = "set_wallpaper"
    /\ total_count = 2
    /\ calls[1].offset = 1
    /\ calls[1].total_count # total_count

\* C5: a call that finds its target path present makes no image GET and leaves the
\* files alone; and when a call that returns a path follows a call with the same offset,
\* directory and catalog entry that returned a path, both paths are the same, the
\* second call makes no GET, and the two calls together made exactly one GET when the
\* first found the file absent (none when it was there already).
C5_IdempotentCacheHit ==
    [][(pc = "download" /\ calls'[1].ok /\ Len(calls'[1].objects) >= 1)
        => LET entry == calls'[1].objects[1]
               gets == Count(calls', IsGet)
           IN  /\ (CachePath(entry.title) \in DOMAIN files)
                   => (gets = 0 /\ files' = files)
               /\ (/\ pc' = "set_wallpaper"
                   /\ prev.called
                   /\ prev.args = [number |-> number, entry |-> entry])
                   => /\ wallpaper_name' = prev.path
                      /\ gets = 0
                      /\ prev.gets + gets = (IF prev.hit THEN 0 ELSE 1)
                      /\ files' = files]_vars

\* the second of two calls for the same entry has returned: the first one downloaded
\* the image, this one did not
C5_Witness ==
    /\ pc = "set_wallpaper"
    /\ prev.called /\ prev.again /\ prev.gets = 0
    /\ wallpaper_name = prev.path
    /\ files[wallpaper_name] \in Bodies
    /\ Count(calls, IsGet) = 0

\* C6: a step that returns an error ends the process, whichever step it is; nothing
\* happens after the process ended; and a failed download step neither calls
\* set_wallpaper nor resets last_change.
C6_FailFast ==
    [][/\ (err' # "none") => (pc' = "terminated")
       /\ (pc = "terminated") => FALSE
       /\ (pc' = "set_wallpaper") => (pc = "download" /\ err' = "none")
       /\ (pc = "download" /\ err' # "none")
           => (elapsed' = elapsed /\ Count(calls', IsSet) = 0)]_vars

\* the process ended on a failed image GET, after the catalog fetch of the same cycle
C6_Witness ==
    /\ pc = "terminated"
    /\ err = "RequestError"
    /\ Len(calls) = 2
    /\ calls[2].op = "get" /\ ~calls[2].ok
    /\ Count(calls, IsSet) = 0

\* C7: when download_wallpaper has returned, set_wallpaper is called next, once in the
\* iteration, with the path <download_directory>/SimpleDesktop/<title>.png that was
\* returned; the file is there at that moment, and after a cache miss it holds the
\* body of the image response.
C7_SuccessfulChange ==
    [][/\ (pc = "set_wallpaper")
           => /\ calls[1].op = "list" /\ calls[1].ok /\ Len(calls[1].objects) >= 1
              /\ wallpaper_name = CachePath(calls[1].objects[1].title)
              /\ wallpaper_name \in DOMAIN files
              /\ Len(calls) = 2
                  => /\ calls[2].op = "get" /\ calls[2].ok
                     /\ calls[2].url = calls[1].objects[1].url
                     /\ files[wallpaper_name] = calls[2].body
              /\ Count(calls, IsSet) = 0
              /\ Len(calls') = Len(calls) + 1
              /\ calls'[Len(calls')].op = "set"
              /\ calls'[Len(calls')].path = wallpaper_name
              /\ files' = files
       /\ (pc \in {"read_timeout", "sleep"}) => (calls' = calls)
       /\ (pc' = "read_timeout" /\ pc = "set_wallpaper")
           => (Count(calls', IsSet) = 1 /\ elapsed' = 0)]_vars

\* a cycle that downloaded the image into the overridden directory and set it
C7_Witness ==
    /\ pc = "read_timeout"
    /\ download_directory = "D:/w"
    /\ Len(calls) = 3
    /\ calls[2].op = "get" /\ calls[2].body = <<1, 3>>
    /\ calls[3].op = "set" /\ calls[3].ok
    /\ calls[3].path = "D:/w/SimpleDesktop/Sunset.png"
    /\ files["D:/w/SimpleDesktop/Sunset.png"] = <<1, 3>>

\* C8: the loop sleeps only after it has re-read the override, with or without a change
\* in that iteration; the re-read comes after the elapsed-time test, which itself leaves
\* change_interval alone, so a value read in one iteration is first used by the test of
\* the next one, after the 60-second sleep; the first test uses the 3600-second default.
C8_RereadOrdering ==
    [][/\ (pc' = "sleep") => (pc = "read_timeout")
       /\ (pc = "check")
           => (pc' \in {"download", "read_timeout", "terminated"} /\ sleep_time' = sleep_time)
       /\ (pc = "set_wallpaper") => (pc' \in {"read_timeout", "terminated"})
       /\ (sleep_time' # sleep_time) => (pc = "read_timeout" /\ pc' = "sleep")
       /\ (pc = "sleep")
           => (pc' = "check" /\ elapsed' = elapsed + check_time /\ sleep_time' = sleep_time)
       /\ (pc = "new" /\ pc' = "check") => (sleep_time' = U64(3600) /\ elapsed' = 0)]_vars

\* the first iteration made no change and read a new interval, five minutes
C8_Witness ==
    /\ pc = "sleep"
    /\ calls = << >>
    /\ elapsed = 0
    /\ timeout = Present("5")
    /\ sleep_time = U64(300)

\* C3: a value of SIMPLE_DESKTOP_TIMEOUT that parses as the unsigned integer m makes
\* change_interval exactly 60 * m seconds; a value that does not parse ends the process
\* with WrongEnvironmentVariable and leaves change_interval alone; without the variable
\* change_interval keeps its value.
C3_TimeoutOverride ==
    [][(pc = "read_timeout")
        => /\ (timeout'.kind = "Ok" /\ Parsed[timeout'.s].ok)
               => /\ pc' = "sleep"
                  /\ ~mul_overflows(Parsed[timeout'.s].val, 60)
                  /\ sleep_time' = wrapping_mul(Parsed[timeout'.s].val, 60)
           /\ (timeout'.kind = "Ok" /\ ~Parsed[timeout'.s].ok)
               => /\ pc' = "terminated"
                  /\ err' = "WrongEnvironmentVariable"
                  /\ sleep_time' = sleep_time
           /\ (timeout'.kind = "NotPresent")
               => (pc' = "sleep" /\ sleep_time' = sleep_time)]_vars

\* C4: a call whose catalog page has no entry fails with ApiError and leaves the
\* directories and files on disk as they were.  (A call that fails with IoError because
\* the file system refuses create_dir_all is let through here, so that what is checked
\* is the disk after the ApiError.)
C4_EmptyEntries ==
    [][(pc = "download" /\ calls'[1].ok /\ Len(calls'[1].objects) = 0)
        => /\ err' \in {"ApiError", "IoError"}
           /\ dirs' = dirs
           /\ files' = files]_vars

\* C9: with SIMPLE_DESKTOP_DIRECTORY present download_directory is its value, and a
\* failed lookup of the pictures directory ends the process only without the variable.
C9_DirectoryResolution ==
    [][(pc = "start")
        => /\ (env_directory.kind = "Ok")
               => (pc' = "new" /\ download_directory' = env_directory.s)
           /\ (pc' = "terminated") => (env_directory.kind # "Ok")]_vars

\* C10: every file at a cache path holds the whole body of one image response.
C10_CacheFileIntegrity ==
    \A p \in DOMAIN files : files[p] \in Bodies

====
